---- MODULE Spec2Model ----
(***************************************************************************)
(* KnowTeX (src/KnowTeX.py): the text-to-graph pipeline.                   *)
(*                                                                         *)
(*   load_and_expand        the Source Resolver   (specification SpecExpand)*)
(*   parse_latex_structure  the Structural Walker (specification Spec)     *)
(*   build_graph            the Graph Assembler   (specification Spec)     *)
(*   App.scan / generate / preview, find_chapter_ranges (SpecApp)          *)
(*                                                                         *)
(* A text is a sequence of tokens [t, v]: t is the kind of the token and v *)
(* its arguments (a sequence of strings).                                  *)
(*   begin   <<env>>      \begin{env}                                      *)
(*   end     <<>>         the \end of the innermost open environment       *)
(*   label   <<l>>        \label{l}                                        *)
(*   uses    <<l1,..>>    \uses{l1,..}: the raw comma separated entries,   *)
(*                        "" standing for a blank entry                    *)
(*   proves  <<l>>        \proves{l}                                       *)
(*   chapter <<title>>    \chapter{title}                                  *)
(*   sep     <<>>         the chapter-slice separator comment of App.scan  *)
(***************************************************************************)
EXTENDS Integers, Sequences, FiniteSets, TLC

VARIABLES
    \* parse_latex_structure and build_graph
    tex,                  \* the text handed to the walker
    selected_canonicals,  \* the categories the caller wants retained
    pc,                   \* "walk", "resolve", "build", "done"
    pos,                  \* position of the environment node walk visits next
    order_counter,
    last_stmt_idx,
    nodes,
    node_by_index,
    label_to_node,
    uses_on_node,
    proofs,
    G,
    \* load_and_expand
    fs,                   \* the files on disk: absolute path -> items
    main_path,            \* the entry document
    includeonly,          \* the allow-list collected from the entry document
    visited,
    stack,                \* the active calls of expand, innermost last
    flat,                 \* the value load_and_expand returned
    epc,                  \* "start", "expand", "done", "error"
    elog,                 \* what each directive occurrence was replaced by
    \* App
    app,                  \* the fields of the App
    texts,                \* what load_and_expand returns for each entry path
    last                  \* what the last handler did

walkVars == <<tex, selected_canonicals, pc, pos, order_counter, last_stmt_idx,
              nodes, node_by_index, label_to_node, uses_on_node, proofs, G>>
expandVars == <<fs, main_path, includeonly, visited, stack, flat, epc, elog>>
appVars == <<app, texts, last>>
vars == <<walkVars, expandVars, appVars>>

-----------------------------------------------------------------------------
(* Bounds of the model. *)

\* The number of environments of a generated document.
MaxBlocks == 3

\* The number of inclusion directives of the entry document, and of each
\* other file.
MaxMainDirectives == 2
MaxSubDirectives == 1

\* The number of chapters of a document of the App.
MaxChapters == 2

-----------------------------------------------------------------------------
(* Python values. *)

\* None where an integer is expected (last_stmt_idx, target_node_idx).
NoneIdx == -1

\* None where a string is expected: a regex that did not match.  The code
\* only tests such values for truth, and "" is false as None is.
NoneStr == ""

EmptyDict == [k \in {} |-> k]

DictSet(d, k, v) == (k :> v) @@ d

DictGet(d, k, default) == IF k \in DOMAIN d THEN d[k] ELSE default

Tok(t, v) == [t |-> t, v |-> v]

RECURSIVE Concat(_)
Concat(ss) == IF ss = <<>> THEN <<>> ELSE Head(ss) \o Concat(Tail(ss))

-----------------------------------------------------------------------------
(* Taxonomy. *)

CANONICAL_ORDER ==
    << "definition", "theorem", "lemma", "proposition", "corollary",
       "construction", "example", "remark" >>

\* re.I: the pattern is matched against the name whatever its case.  The
\* names of the model that are not lower case already:
LowerTable ==
    [ Defn |-> "defn", Proof |-> "proof", THM |-> "thm", Lem |-> "lem",
      Theorem |-> "theorem", PF |-> "pf" ]

Lower(s) == IF s \in DOMAIN LowerTable THEN LowerTable[s] ELSE s

\* The alternatives of each anchored pattern ^(..|..)$.
ALIASES ==
    [ definition   |-> {"definition", "defn", "def"},
      theorem      |-> {"theorem", "thm", "th", "thrm"},
      lemma        |-> {"lemma", "lem", "ilemma", "alemma"},
      proposition  |-> {"proposition", "propn", "prop", "prp"},
      corollary    |-> {"corollary", "cor", "corol", "corl"},
      construction |-> {"construction", "constn", "const", "constr"},
      example      |-> {"example", "examples", "iexample"},
      remark       |-> {"remark", "remarks"} ]

PROOF_ALIAS_RX == {"proof", "pr", "pf", "prf", "pfof", "pfoftheorem"}

\* FullMatch without re.I.
FullMatch_CaseSensitive(alts, envname) == envname \in alts

\* rx.fullmatch(envname) for a pattern of alternatives compiled with re.I.
FullMatch(alts, envname) == Lower(envname) \in alts

\* The first category, in declaration order, whose pattern matches; NoneStr
\* when none does.
RECURSIVE FirstMatch(_, _)
FirstMatch(order, envname) ==
    IF order = <<>> THEN NoneStr
    ELSE IF FullMatch(ALIASES[Head(order)], envname) THEN Head(order)
    ELSE FirstMatch(Tail(order), envname)

canonical_of_env(envname) == FirstMatch(CANONICAL_ORDER, envname)

-----------------------------------------------------------------------------
(* The node tree of a text (LatexWalker): an environment node is a begin   *)
(* token with everything up to its matching end; a text that ends inside   *)
(* an environment closes it there.                                         *)

IsBegin(tk) == tk.t = "begin"

\* The position of the end token matching the begin at i, searching from j
\* with depth environments open; Len(text) + 1 when the text ends first.
RECURSIVE MatchEnd(_, _, _)
MatchEnd(text, j, depth) ==
    IF j > Len(text) THEN j
    ELSE IF text[j].t = "begin" THEN MatchEnd(text, j + 1, depth + 1)
    ELSE IF text[j].t = "end"
         THEN IF depth = 0 THEN j ELSE MatchEnd(text, j + 1, depth - 1)
    ELSE MatchEnd(text, j + 1, depth)

\* n.latex_verbatim() of the environment node that begins at i.
latex_verbatim(text, i) ==
    LET e == MatchEnd(text, i + 1, 0)
    IN  SubSeq(text, i, IF e > Len(text) THEN Len(text) ELSE e)

\* The next environment node in pre-order at or after position i, or
\* Len(text) + 1.
RECURSIVE NextEnv(_, _)
NextEnv(text, i) ==
    IF i > Len(text) THEN Len(text) + 1
    ELSE IF IsBegin(text[i]) THEN i
    ELSE NextEnv(text, i + 1)

-----------------------------------------------------------------------------
(* The directives of a verbatim text. *)

\* LABEL_RX.search(s): the first \label{..}; [^}]+ wants a non-empty name.
RECURSIVE LabelSearch(_)
LabelSearch(s) ==
    IF s = <<>> THEN NoneStr
    ELSE IF Head(s).t = "label" /\ Head(s).v # <<>> /\ Head(s).v[1] # ""
         THEN Head(s).v[1]
    ELSE LabelSearch(Tail(s))

\* PROVES_RX.search(s), group(1).strip(): the first \proves{..}.
RECURSIVE ProvesSearch(_)
ProvesSearch(s) ==
    IF s = <<>> THEN NoneStr
    ELSE IF Head(s).t = "proves"
         THEN IF Head(s).v = <<>> THEN "" ELSE Head(s).v[1]
    ELSE ProvesSearch(Tail(s))

NonBlank(x) == x # ""

\* [x.strip() for x in um.group(1).split(",") if x.strip()]
UsesEntries(tk) == SelectSeq(tk.v, NonBlank)

\* All \uses{..} of s, in order, each one's entries appended.
RECURSIVE UsesAll(_)
UsesAll(s) ==
    IF s = <<>> THEN <<>>
    ELSE IF Head(s).t = "uses" THEN UsesEntries(Head(s)) \o UsesAll(Tail(s))
    ELSE UsesAll(Tail(s))

-----------------------------------------------------------------------------
(* parse_latex_structure: the walk. *)

NodeInfo(canon, env, label, index) ==
    [canon |-> canon, env |-> env, label |-> label, index |-> index]

\* f"{env}:{my_index}"
SyntheticLabel(env, my_index) == env \o ":" \o ToString(my_index)

\* label = lbl if lbl else f"{env}:{my_index}"
LabelOf(lbl, env, my_index) ==
    IF lbl # NoneStr THEN lbl ELSE SyntheticLabel(env, my_index)

\* The traversal context: the locals of parse_latex_structure walk updates.
Ctx0 ==
    [ order_counter |-> 0, last_stmt_idx |-> NoneIdx, nodes |-> <<>>,
      node_by_index |-> EmptyDict, label_to_node |-> EmptyDict,
      uses_on_node |-> EmptyDict, proofs |-> <<>> ]

\* IsStatement without the test of the requested subset.
IsStatement_AnyCategory(env, sel) == canonical_of_env(env) # NoneStr

IsStatement(env, sel) ==
    canonical_of_env(env) # NoneStr /\ canonical_of_env(env) \in sel

IsProof(env) == FullMatch(PROOF_ALIAS_RX, env)

\* NextOrdinal with the increment forgotten.
NextOrdinal_Stuck(counter) == counter

\* What my_index = order_counter; order_counter += 1 leaves in order_counter.
NextOrdinal(counter) == counter + 1

\* if lbl: label_to_node[lbl] = ni
IndexLabel(d, lbl, ni) == IF lbl # NoneStr THEN DictSet(d, lbl, ni) ELSE d

\* The branch of walk for a block of a requested category.
VisitStatement(c, text, i) ==
    LET env      == text[i].v[1]
        my_index == c.order_counter
        s        == latex_verbatim(text, i)
        lbl      == LabelSearch(s)
        ni       == NodeInfo(canonical_of_env(env), env,
                             LabelOf(lbl, env, my_index), my_index)
        labels   == UsesAll(s)
    IN  [ c EXCEPT
            !.order_counter = NextOrdinal(my_index),
            !.last_stmt_idx = my_index,
            !.nodes = Append(@, ni),
            !.node_by_index = DictSet(@, my_index, ni),
            !.label_to_node = IndexLabel(@, lbl, ni),
            !.uses_on_node =
                IF labels # <<>>
                THEN DictSet(@, my_index, DictGet(@, my_index, <<>>) \o labels)
                ELSE @ ]

\* The branch of walk for a proof block.
VisitProof(c, text, i) ==
    LET my_index == c.order_counter
        s        == latex_verbatim(text, i)
    IN  [ c EXCEPT
            !.order_counter = NextOrdinal(my_index),
            !.proofs = Append(@, [ index |-> my_index,
                                   target_label |-> ProvesSearch(s),
                                   uses |-> UsesAll(s),
                                   target_node_idx |-> c.last_stmt_idx ]) ]

\* walk(n) at the environment node that begins at i, its children left to
\* the later positions.
VisitEnv(c, text, i, sel) ==
    IF IsStatement(text[i].v[1], sel) THEN VisitStatement(c, text, i)
    ELSE IF IsProof(text[i].v[1]) THEN VisitProof(c, text, i)
    ELSE c

\* ResolveTarget with the declared target ignored.
ResolveTarget_FallbackOnly(p, l2n) == p.target_node_idx

\* p["target_node_idx"] after the loop that follows the walk.
ResolveTarget(p, l2n) ==
    IF p.target_label # NoneStr /\ p.target_label \in DOMAIN l2n
    THEN l2n[p.target_label].index
    ELSE p.target_node_idx

ResolveProofs(ps, l2n) ==
    [k \in DOMAIN ps |-> [ps[k] EXCEPT !.target_node_idx = ResolveTarget(ps[k], l2n)]]

\* for root in nodelist: walk(root), from position i on.
RECURSIVE WalkFrom(_, _, _, _)
WalkFrom(c, text, i, sel) ==
    IF NextEnv(text, i) > Len(text) THEN c
    ELSE WalkFrom(VisitEnv(c, text, NextEnv(text, i), sel), text,
                  NextEnv(text, i) + 1, sel)

\* The five values parse_latex_structure returns.
parse_latex_structure(text, sel) ==
    LET c == WalkFrom(Ctx0, text, 1, sel)
    IN  [ nodes |-> c.nodes, node_by_index |-> c.node_by_index,
          label_to_node |-> c.label_to_node, uses_on_node |-> c.uses_on_node,
          proofs |-> ResolveProofs(c.proofs, c.label_to_node) ]

-----------------------------------------------------------------------------
(* build_graph.  The graph is the node names added and the add_edge calls  *)
(* made, in order.                                                         *)

Edge(src, dst, style) == [src |-> src, dst |-> dst, style |-> style]

\* EdgesFrom without the test of src: the raw label becomes an endpoint.
EdgesFrom_Unchecked(labels, target_label, l2n, style) ==
    [k \in DOMAIN labels |-> Edge(labels[k], target_label, style)]

\* EdgesFrom with the endpoints exchanged.
RECURSIVE EdgesFrom_Reversed(_, _, _, _)
EdgesFrom_Reversed(labels, target_label, l2n, style) ==
    IF labels = <<>> THEN <<>>
    ELSE (IF Head(labels) \in DOMAIN l2n
          THEN << Edge(target_label, l2n[Head(labels)].label, style) >>
          ELSE <<>>)
         \o EdgesFrom_Reversed(Tail(labels), target_label, l2n, style)

\* for lbl in labels: src = label_to_node.get(lbl); if src: add_edge(..)
RECURSIVE EdgesFrom(_, _, _, _)
EdgesFrom(labels, target_label, l2n, style) ==
    IF labels = <<>> THEN <<>>
    ELSE (IF Head(labels) \in DOMAIN l2n
          THEN << Edge(l2n[Head(labels)].label, target_label, style) >>
          ELSE <<>>)
         \o EdgesFrom(Tail(labels), target_label, l2n, style)

\* The loop over uses_on_node.items(): keys in insertion order, which is
\* increasing index order.
RECURSIVE StatementEdges(_, _, _, _, _)
StatementEdges(idx, limit, nbi, l2n, uon) ==
    IF idx >= limit THEN <<>>
    ELSE (IF idx \in DOMAIN uon /\ idx \in DOMAIN nbi
          THEN EdgesFrom(uon[idx], nbi[idx].label, l2n, "dashed")
          ELSE <<>>)
         \o StatementEdges(idx + 1, limit, nbi, l2n, uon)

\* The loop over proofs.
RECURSIVE ProofEdges(_, _, _)
ProofEdges(ps, nbi, l2n) ==
    IF ps = <<>> THEN <<>>
    ELSE (IF Head(ps).target_node_idx # NoneIdx
             /\ Head(ps).target_node_idx \in DOMAIN nbi
          THEN EdgesFrom(Head(ps).uses, nbi[Head(ps).target_node_idx].label,
                         l2n, "solid")
          ELSE <<>>)
         \o ProofEdges(Tail(ps), nbi, l2n)

MaxIndex(nbi) == IF DOMAIN nbi = {} THEN 0
                 ELSE 1 + CHOOSE m \in DOMAIN nbi : \A k \in DOMAIN nbi : k <= m

\* The place of the edge from src to dst in a sequence of edges, 0 when
\* there is none.
EdgeAt(edges, src, dst) ==
    IF \E k \in DOMAIN edges : edges[k].src = src /\ edges[k].dst = dst
    THEN CHOOSE k \in DOMAIN edges : edges[k].src = src /\ edges[k].dst = dst
    ELSE 0

\* add_edge on a graph that is not strict: every call makes an edge.
add_edge_Multi(edges, call) == Append(edges, call)

\* G.add_edge(u, v, **attr) on the graph AGraph(directed=True) makes, which
\* is strict (strict=True is the default of AGraph): the first call for a
\* pair of endpoints makes the edge, a later one finds that edge and only
\* sets the attributes it passes.  The calls for a proof pass no style, a
\* style of "solid" here.
add_edge(edges, call) ==
    IF EdgeAt(edges, call.src, call.dst) = 0 THEN Append(edges, call)
    ELSE IF call.style = "solid" THEN edges
    ELSE [edges EXCEPT ![EdgeAt(edges, call.src, call.dst)].style = call.style]

RECURSIVE AddEdges(_, _)
AddEdges(edges, calls) ==
    IF calls = <<>> THEN edges
    ELSE AddEdges(add_edge(edges, Head(calls)), Tail(calls))

\* The calls of add_edge build_graph makes, in order.
EdgeCalls(nbi, l2n, uon, ps) ==
    StatementEdges(0, MaxIndex(nbi), nbi, l2n, uon) \o ProofEdges(ps, nbi, l2n)

build_graph(ns, nbi, l2n, uon, ps) ==
    [ nodes |-> {ns[k].label : k \in DOMAIN ns},
      edges |-> AddEdges(<<>>, EdgeCalls(nbi, l2n, uon, ps)) ]

NoGraph == [nodes |-> {}, edges |-> <<>>]

-----------------------------------------------------------------------------
(* The documents of the model: up to MaxBlocks environments, each with the *)
(* directives of its own body, nested by depth.                            *)

\* The names of the environments of a document: a theorem, a definition by
\* an alias, a proof by an alias, and a name the taxonomy does not know.
DocEnvs == {"theorem", "Defn", "Proof", "itemize"}

\* "theorem:0" is the synthetic label of a theorem without a \label that is
\* the first block recorded; "" is a blank entry of a \uses list.
UsesOpt == { <<>>, <<"", "b", "theorem:0">> }

ProvesOpt == {NoneStr, "a", "theorem:0"}

Block(env, lbl, uses, proves, depth) ==
    [env |-> env, lbl |-> lbl, uses |-> uses, proves |-> proves, depth |-> depth]

\* The blocks a document is made of, at one of the given depths.
BlockOpts(depths) ==
    { Block("theorem", l, u, NoneStr, d) : l \in {NoneStr, "a"}, u \in UsesOpt, d \in depths }
    \cup { Block("Defn", l, <<>>, NoneStr, d) : l \in {"a", "b"}, d \in depths }
    \cup { Block("Proof", NoneStr, <<"", "b", "theorem:0">>, p, d) : p \in ProvesOpt, d \in depths }
    \cup { Block("itemize", NoneStr, <<>>, NoneStr, d) : d \in depths }

\* The first block is at depth 0 and each one at most one deeper than the
\* one before it.
WellNested(bs) ==
    \A k \in DOMAIN bs :
        bs[k].depth <= (IF k = 1 THEN 0 ELSE bs[k - 1].depth + 1)

Ends(k) == [j \in 1 .. k |-> Tok("end", <<>>)]

BodyOf(b) ==
    (IF b.lbl # NoneStr THEN << Tok("label", <<b.lbl>>) >> ELSE <<>>)
    \o (IF b.proves # NoneStr THEN << Tok("proves", <<b.proves>>) >> ELSE <<>>)
    \o (IF b.uses # <<>> THEN << Tok("uses", b.uses) >> ELSE <<>>)

\* The text of a block sequence: before each block the environments that
\* are not its ancestors are closed.
RECURSIVE Render(_, _, _)
Render(bs, k, open) ==
    IF k > Len(bs) THEN Ends(open)
    ELSE Ends(open - bs[k].depth)
         \o << Tok("begin", <<bs[k].env>>) >> \o BodyOf(bs[k])
         \o Render(bs, k + 1, bs[k].depth + 1)

Selections == { {}, {"theorem"}, {"theorem", "definition"} }

-----------------------------------------------------------------------------
(* Specification Spec: one run of parse_latex_structure followed by        *)
(* build_graph on its results.                                             *)

Ctx ==
    [ order_counter |-> order_counter, last_stmt_idx |-> last_stmt_idx,
      nodes |-> nodes, node_by_index |-> node_by_index,
      label_to_node |-> label_to_node, uses_on_node |-> uses_on_node,
      proofs |-> proofs ]

SetCtx(c) ==
    /\ order_counter' = c.order_counter
    /\ last_stmt_idx' = c.last_stmt_idx
    /\ nodes' = c.nodes
    /\ node_by_index' = c.node_by_index
    /\ label_to_node' = c.label_to_node
    /\ uses_on_node' = c.uses_on_node
    /\ proofs' = c.proofs

CtxInit ==
    /\ order_counter = Ctx0.order_counter
    /\ last_stmt_idx = Ctx0.last_stmt_idx
    /\ nodes = Ctx0.nodes
    /\ node_by_index = Ctx0.node_by_index
    /\ label_to_node = Ctx0.label_to_node
    /\ uses_on_node = Ctx0.uses_on_node
    /\ proofs = Ctx0.proofs

ExpandIdle ==
    /\ fs = EmptyDict
    /\ main_path = <<>>
    /\ includeonly = {}
    /\ visited = {}
    /\ stack = <<>>
    /\ flat = <<>>
    /\ epc = "idle"
    /\ elog = <<>>

AppIdle == app = EmptyDict /\ texts = EmptyDict /\ last = EmptyDict

WalkIdle ==
    /\ tex = <<>>
    /\ selected_canonicals = {}
    /\ pc = "idle"
    /\ pos = 0
    /\ CtxInit
    /\ G = NoGraph

WalkInit ==
    /\ \E n \in 0 .. MaxBlocks :
          \E bs \in [1 .. n -> BlockOpts(0 .. MaxBlocks - 1)] :
              WellNested(bs) /\ tex = Render(bs, 1, 0)
    /\ selected_canonicals \in Selections
    /\ pc = "walk"
    /\ pos = NextEnv(tex, 1)
    /\ CtxInit
    /\ G = NoGraph

Init == WalkInit /\ ExpandIdle /\ AppIdle

Advance ==
    /\ pos' = NextEnv(tex, pos + 1)
    /\ pc' = "walk"
    /\ UNCHANGED <<tex, selected_canonicals, G, expandVars, appVars>>

WalkStatement ==
    /\ pc = "walk" /\ pos <= Len(tex)
    /\ IsStatement(tex[pos].v[1], selected_canonicals)
    /\ SetCtx(VisitEnv(Ctx, tex, pos, selected_canonicals))
    /\ Advance

WalkProof ==
    /\ pc = "walk" /\ pos <= Len(tex)
    /\ ~IsStatement(tex[pos].v[1], selected_canonicals)
    /\ IsProof(tex[pos].v[1])
    /\ SetCtx(VisitEnv(Ctx, tex, pos, selected_canonicals))
    /\ Advance

WalkOther ==
    /\ pc = "walk" /\ pos <= Len(tex)
    /\ ~IsStatement(tex[pos].v[1], selected_canonicals)
    /\ ~IsProof(tex[pos].v[1])
    /\ SetCtx(VisitEnv(Ctx, tex, pos, selected_canonicals))
    /\ Advance

Resolve ==
    /\ pc = "walk" /\ pos > Len(tex)
    /\ proofs' = ResolveProofs(proofs, label_to_node)
    /\ pc' = "build"
    /\ UNCHANGED <<tex, selected_canonicals, pos, order_counter, last_stmt_idx,
                   nodes, node_by_index, label_to_node, uses_on_node, G,
                   expandVars, appVars>>

BuildGraph ==
    /\ pc = "build"
    /\ G' = build_graph(nodes, node_by_index, label_to_node, uses_on_node, proofs)
    /\ pc' = "done"
    /\ UNCHANGED <<tex, selected_canonicals, pos, order_counter, last_stmt_idx,
                   nodes, node_by_index, label_to_node, uses_on_node, proofs,
                   expandVars, appVars>>

Next == WalkStatement \/ WalkProof \/ WalkOther \/ Resolve \/ BuildGraph

Spec == Init /\ [][Next]_vars

-----------------------------------------------------------------------------
(* load_and_expand.  A file is a sequence of items [t, d, n, s, x, c]:     *)
(*   text         s: what the file says there                              *)
(*   import       \import{d}{n/s x}      subimport   \subimport{d}{n/s x}  *)
(*   input_braced \input{n/s x}          input_space \input n/s x          *)
(*   include      \include{n/s x}                                          *)
(*   includeonly  \includeonly{d}: d the comma separated names             *)
(* d and n are sequences of directory names, s a file name without its     *)
(* extension x; c says that the item stands behind a % on its line.  The   *)
(* expanded text also holds                                                *)
(*   missing      the placeholder line naming the path n/s x               *)
(*   skipped      the marker of an \include{n/s x} that was skipped        *)
(* A path is [dir, stem, ext], dir counted from the root of the disk.      *)

Item(t, d, n, s, x, c) == [t |-> t, d |-> d, n |-> n, s |-> s, x |-> x, c |-> c]

Path(dir, stem, ext) == [dir |-> dir, stem |-> stem, ext |-> ext]

\* re.sub(COMMENT_RX, ..): what stands behind a % goes.
strip_comments(text) == SelectSeq(text, LAMBDA it : ~it.c)

\* path if os.path.splitext(path)[1] else path + ".tex"
ensure_tex_ext(x) == IF x # "" THEN x ELSE ".tex"

\* os.path.normpath of a sequence of directory names.
RECURSIVE NormPath(_, _)
NormPath(done, rest) ==
    IF rest = <<>> THEN done
    ELSE IF Head(rest) = "." THEN NormPath(done, Tail(rest))
    ELSE IF Head(rest) = ".."
         THEN NormPath(IF done = <<>> THEN <<>> ELSE SubSeq(done, 1, Len(done) - 1),
                       Tail(rest))
    ELSE NormPath(Append(done, Head(rest)), Tail(rest))

\* os.path.normpath(os.path.join(base_dir, rel)), rel a directory.
norm_join(base_dir, rel) == NormPath(<<>>, base_dir \o rel)

\* The names, blank ones dropped, of the \includeonly directives of a text.
RECURSIVE IncludeOnlyNames(_)
IncludeOnlyNames(text) ==
    IF text = <<>> THEN {}
    ELSE (IF Head(text).t = "includeonly"
          THEN { Head(text).d[k] : k \in { j \in DOMAIN Head(text).d : Head(text).d[j] # "" } }
          ELSE {})
         \cup IncludeOnlyNames(Tail(text))

\* for m in INCLUDEONLY_RX.finditer(strip_comments(text)): incs.update(names)
collect_includeonly(text) == IncludeOnlyNames(strip_comments(text))

\* The call expand(inc_path, inc_dir) a directive of a file in current_dir
\* makes.
repl_import(current_dir, m) ==
    [ path |-> Path(norm_join(norm_join(current_dir, m.d), m.n), m.s, ensure_tex_ext(m.x)),
      dir  |-> norm_join(current_dir, m.d) ]

repl_input(current_dir, m) ==
    [ path |-> Path(norm_join(current_dir, m.n), m.s, ensure_tex_ext(m.x)),
      dir  |-> norm_join(current_dir, m.n) ]

CallOf(current_dir, m) ==
    IF m.t \in {"import", "subimport"} THEN repl_import(current_dir, m)
    ELSE repl_input(current_dir, m)

\* os.path.basename(name)
BaseName(m) == m.s \o m.x

\* repl_include: if includeonly and (base_name not in includeonly)
IsSkipped(m, allow) ==
    m.t = "include" /\ allow # {} /\ BaseName(m) \notin allow

SkipMarker(m) == Item("skipped", <<>>, m.n, m.s, m.x, FALSE)

\* MissingText with nothing left in place of the file.
MissingText_Nothing(p) == <<>>

\* f"% [depgraph] missing file: {abs_path}\n"
MissingText(p) == << Item("missing", <<>>, p.dir, p.stem, p.ext, FALSE) >>

\* AlreadyVisited with the guard gone.
AlreadyVisited_Never(p, seen) == FALSE

\* if abs_path in visited: return ""
AlreadyVisited(p, seen) == p \in seen

\* The order in which expand substitutes the kinds of directive.
PassOrder == << "import", "subimport", "input_braced", "input_space", "include" >>

RECURSIVE FirstOfKind(_, _, _)
FirstOfKind(text, kind, i) ==
    IF i > Len(text) THEN 0
    ELSE IF text[i].t = kind THEN i
    ELSE FirstOfKind(text, kind, i + 1)

\* The directive expand replaces next: the leftmost of the first kind, in
\* the order of the passes, that the text still holds; 0 when none is left.
RECURSIVE NextDirective(_, _)
NextDirective(text, kinds) ==
    IF kinds = <<>> THEN 0
    ELSE IF FirstOfKind(text, Head(kinds), 1) # 0 THEN FirstOfKind(text, Head(kinds), 1)
    ELSE NextDirective(text, Tail(kinds))

\* text with the item at i replaced by the text repl.
Splice(text, i, repl) ==
    SubSeq(text, 1, i - 1) \o repl \o SubSeq(text, i + 1, Len(text))

Frame(path, dir, text) == [path |-> path, dir |-> dir, text |-> text]

Top == stack[Len(stack)]

TopNext == NextDirective(Top.text, PassOrder)

\* The top call's text with its next directive replaced.
Replaced(repl) ==
    [stack EXCEPT ![Len(stack)].text = Splice(@, TopNext, repl)]

Logged(outcome) ==
    Append(elog, [ by |-> Top.path, m |-> Top.text[TopNext],
                   target |-> CallOf(Top.dir, Top.text[TopNext]).path,
                   outcome |-> outcome ])

-----------------------------------------------------------------------------
(* The files of the model. *)

ProjectDir == << "proj" >>

MainFile == Path(ProjectDir, "main", ".tex")
FileA == Path(ProjectDir, "a", ".tex")
FileB == Path(ProjectDir \o << "sub" >>, "b", ".tex")
NoFile == Path(ProjectDir, "nomain", ".tex")

Text(id) == Item("text", <<>>, <<>>, id, "", FALSE)

Dir(kind, n, s) == Item(kind, <<>>, n, s, "", FALSE)

\* The directives of the entry document.
MainDirectives ==
    { Dir("input_braced", <<>>, "a"),
      Item("input_space", <<>>, <<>>, "a", ".tex", FALSE),
      Dir("input_braced", <<>>, "ghost"),
      Item("input_braced", <<>>, <<>>, "a", "", TRUE),
      Dir("include", <<"sub">>, "b"),
      Dir("include", <<>>, "ghost"),
      Item("import", <<"sub">>, <<>>, "b", "", FALSE),
      Item("subimport", <<".">>, <<>>, "ghost", "", FALSE) }

\* The directives of the other files.
SubDirectives ==
    { Dir("input_braced", <<>>, "main"),
      Dir("input_braced", <<"..">>, "main"),
      Dir("input_braced", <<>>, "ghost"),
      Dir("input_space", <<>>, "a"),
      Dir("include", <<>>, "b"),
      Dir("include", <<"sub">>, "b"),
      Item("includeonly", <<"ghost">>, <<>>, "", "", FALSE) }

\* The \includeonly of the entry document: none, one that names nothing,
\* one in a comment, and one that names a or b.
IncludeOnlyOpts ==
    { <<>>,
      << Item("includeonly", <<"">>, <<>>, "", "", FALSE) >>,
      << Item("includeonly", <<"b">>, <<>>, "", "", TRUE) >>,
      << Item("includeonly", <<"a">>, <<>>, "", "", FALSE) >>,
      << Item("includeonly", <<"", "b">>, <<>>, "", "", FALSE) >> }

SeqsUpTo(S, n) == UNION { [1 .. k -> S] : k \in 0 .. n }

Disks ==
    { (MainFile :> (io \o << Text("main") >> \o ds))
        @@ (FileA :> (<< Text("a") >> \o da))
        @@ (FileB :> (<< Text("b") >> \o db)) :
      io \in IncludeOnlyOpts,
      ds \in SeqsUpTo(MainDirectives, MaxMainDirectives),
      da \in SeqsUpTo(SubDirectives, MaxSubDirectives),
      db \in SeqsUpTo(SubDirectives, MaxSubDirectives) }

-----------------------------------------------------------------------------
(* Specification SpecExpand: one call of load_and_expand. *)

ExpandInit ==
    /\ \/ main_path = MainFile /\ fs \in Disks
       \/ main_path = NoFile /\ fs = (FileA :> << Text("a") >>)
    /\ includeonly = {}
    /\ visited = {}
    /\ stack = <<>>
    /\ flat = <<>>
    /\ epc = "start"
    /\ elog = <<>>

InitExpand == ExpandInit /\ WalkIdle /\ AppIdle

\* main_text = read_file(main_path) raises: load_and_expand returns nothing.
StartMissing ==
    /\ epc = "start"
    /\ main_path \notin DOMAIN fs
    /\ epc' = "error"
    /\ UNCHANGED <<fs, main_path, includeonly, visited, stack, flat, elog,
                   walkVars, appVars>>

\* The lines before expand(main_path, project_dir) and the start of that
\* call.
Start ==
    /\ epc = "start"
    /\ main_path \in DOMAIN fs
    /\ includeonly' = collect_includeonly(fs[main_path])
    /\ visited' = {main_path}
    /\ stack' = << Frame(main_path, main_path.dir, strip_comments(fs[main_path])) >>
    /\ epc' = "expand"
    /\ UNCHANGED <<fs, main_path, flat, elog, walkVars, appVars>>

AtDirective == epc = "expand" /\ stack # <<>> /\ TopNext # 0

\* repl_include returns the skip marker.
SkipInclude ==
    /\ AtDirective
    /\ LET m == Top.text[TopNext] IN
        /\ IsSkipped(m, includeonly)
        /\ stack' = Replaced(<< SkipMarker(m) >>)
    /\ elog' = Logged("skipped")
    /\ UNCHANGED <<fs, main_path, includeonly, visited, flat, epc, walkVars, appVars>>

\* expand finds the path in visited and returns "".
Revisit ==
    /\ AtDirective
    /\ LET m == Top.text[TopNext]
           call == CallOf(Top.dir, m) IN
        /\ ~IsSkipped(m, includeonly)
        /\ AlreadyVisited(call.path, visited)
        /\ stack' = Replaced(<<>>)
    /\ elog' = Logged("empty")
    /\ UNCHANGED <<fs, main_path, includeonly, visited, flat, epc, walkVars, appVars>>

\* expand marks the path visited, cannot read it and returns the
\* placeholder.
MissingFile ==
    /\ AtDirective
    /\ LET m == Top.text[TopNext]
           call == CallOf(Top.dir, m) IN
        /\ ~IsSkipped(m, includeonly)
        /\ ~AlreadyVisited(call.path, visited)
        /\ call.path \notin DOMAIN fs
        /\ visited' = visited \cup { call.path }
        /\ stack' = Replaced(MissingText(call.path))
    /\ elog' = Logged("missing")
    /\ UNCHANGED <<fs, main_path, includeonly, flat, epc, walkVars, appVars>>

\* expand marks the path visited, reads the file and strips its comments.
Enter ==
    /\ AtDirective
    /\ LET m == Top.text[TopNext]
           call == CallOf(Top.dir, m) IN
        /\ ~IsSkipped(m, includeonly)
        /\ ~AlreadyVisited(call.path, visited)
        /\ call.path \in DOMAIN fs
        /\ visited' = visited \cup { call.path }
        /\ stack' = Append(stack, Frame(call.path, call.dir, strip_comments(fs[call.path])))
    /\ elog' = Logged("expanded")
    /\ UNCHANGED <<fs, main_path, includeonly, flat, epc, walkVars, appVars>>

\* An inner expand returns its text, which replaces the directive.
Return ==
    /\ epc = "expand" /\ Len(stack) > 1 /\ TopNext = 0
    /\ stack' = [ SubSeq(stack, 1, Len(stack) - 1) EXCEPT
                    ![Len(stack) - 1].text =
                        Splice(@, NextDirective(@, PassOrder), Top.text) ]
    /\ UNCHANGED <<fs, main_path, includeonly, visited, flat, epc, elog,
                   walkVars, appVars>>

\* expand(main_path, project_dir) returns the FlatDocument.
Finish ==
    /\ epc = "expand" /\ Len(stack) = 1 /\ TopNext = 0
    /\ flat' = Top.text
    /\ stack' = <<>>
    /\ epc' = "done"
    /\ UNCHANGED <<fs, main_path, includeonly, visited, elog, walkVars, appVars>>

NextExpand ==
    StartMissing \/ Start \/ SkipInclude \/ Revisit \/ MissingFile \/ Enter
        \/ Return \/ Finish

SpecExpand == InitExpand /\ [][NextExpand]_vars

-----------------------------------------------------------------------------
(* What the claims speak of. *)

\* The positions of the blocks walk records (as a statement or as a proof),
\* in pre-order, from position i on.
RECURSIVE Recognized(_, _, _)
Recognized(text, i, sel) ==
    IF NextEnv(text, i) > Len(text) THEN <<>>
    ELSE (IF IsStatement(text[NextEnv(text, i)].v[1], sel)
             \/ IsProof(text[NextEnv(text, i)].v[1])
          THEN << NextEnv(text, i) >> ELSE <<>>)
         \o Recognized(text, NextEnv(text, i) + 1, sel)

\* The recorded blocks walk has visited so far.
Visited ==
    SelectSeq(Recognized(tex, 1, selected_canonicals), LAMBDA p : p < pos)

WalkOver == pc \in {"build", "done"}

NodeLabels == { nodes[k].label : k \in DOMAIN nodes }

\* The \label a recorded block declares in its own text, NoneStr when it
\* has none: the block with ordinal k is the (k+1)-th recorded block.
DeclaredLabel(k) == LabelSearch(latex_verbatim(tex, Visited[k + 1]))

NodesDeclaring(l) ==
    { j \in DOMAIN nodes : l # NoneStr /\ DeclaredLabel(nodes[j].index) = l }

NodesLabelled(l) == { j \in DOMAIN nodes : nodes[j].label = l }

\* The ordinals of the StatementNodes recorded before ordinal k.
StatementsBefore(k) ==
    { nodes[j].index : j \in { i \in DOMAIN nodes : nodes[i].index < k } }

Max(S) == CHOOSE m \in S : \A x \in S : x <= m

\* The most recently recorded StatementNode before ordinal k, NoneIdx when
\* there is none.
Fallback(k) ==
    IF StatementsBefore(k) = {} THEN NoneIdx ELSE Max(StatementsBefore(k))

InSeq(x, s) == \E k \in DOMAIN s : s[k] = x

AllSelected == {"theorem", "definition"}

-----------------------------------------------------------------------------
\* C1: after parse_latex_structure no two recorded StatementNodes have the
\* same label.  The code contradicts it: a block takes the first \label of
\* its verbatim text, so a repeated \label, and the \label of a nested
\* block, label two nodes alike.
C1_LabelsUnique ==
    \A i, j \in DOMAIN nodes : i # j => nodes[i].label # nodes[j].label

\* C2: ordinals come from one counter shared by statement and proof blocks:
\* the k-th block recorded in pre-order, statement or proof, holds ordinal
\* k - 1 and no other record holds it, so ordinals are distinct and grow
\* strictly with the order of the visits.
C2_SharedCounter ==
    pc # "idle" =>
        LET v       == Visited
            nodeOrd == [j \in DOMAIN nodes |-> nodes[j].index]
            prfOrd  == [j \in DOMAIN proofs |-> proofs[j].index]
        IN  /\ order_counter = Len(v)
            /\ \A k \in 1 .. Len(v) :
                  IF IsStatement(tex[v[k]].v[1], selected_canonicals)
                  THEN /\ Cardinality({ j \in DOMAIN nodeOrd : nodeOrd[j] = k - 1 }) = 1
                       /\ \A j \in DOMAIN prfOrd : prfOrd[j] # k - 1
                       /\ (k - 1) \in DOMAIN node_by_index
                       /\ node_by_index[k - 1].env = tex[v[k]].v[1]
                  ELSE /\ Cardinality({ j \in DOMAIN prfOrd : prfOrd[j] = k - 1 }) = 1
                       /\ \A j \in DOMAIN nodeOrd : nodeOrd[j] # k - 1
            /\ \A i, j \in DOMAIN nodeOrd : i < j => nodeOrd[i] < nodeOrd[j]
            /\ \A i, j \in DOMAIN prfOrd : i < j => prfOrd[i] < prfOrd[j]
            /\ \A j \in DOMAIN nodeOrd : nodeOrd[j] \in 0 .. order_counter - 1
            /\ \A j \in DOMAIN prfOrd : prfOrd[j] \in 0 .. order_counter - 1

\* C2's case: a proof recorded between two statements, the walk over.
C2_Witness ==
    /\ pc = "done"
    /\ \E i, j \in DOMAIN nodes : \E p \in DOMAIN proofs :
          nodes[i].index < proofs[p].index /\ proofs[p].index < nodes[j].index

\* The labels the directives of the recorded blocks refer to.
ReferredLabels ==
    UNION { { uses_on_node[i][k] : k \in DOMAIN uses_on_node[i] } : i \in DOMAIN uses_on_node }
    \cup UNION { { proofs[j].uses[k] : k \in DOMAIN proofs[j].uses } : j \in DOMAIN proofs }
    \cup { proofs[j].target_label : j \in DOMAIN proofs }

\* C4: both endpoints of every edge of the graph are labels of recorded
\* StatementNodes, which are the nodes of the graph, and a label referred
\* to by a uses list or a proves directive that names no recorded
\* StatementNode is on no edge.
C4_EdgesBetweenNodes ==
    pc = "done" =>
        /\ \A k \in DOMAIN G.edges :
              G.edges[k].src \in NodeLabels /\ G.edges[k].dst \in NodeLabels
        /\ \A l \in ReferredLabels \ NodeLabels :
              \A k \in DOMAIN G.edges : G.edges[k].src # l /\ G.edges[k].dst # l
        /\ G.nodes = NodeLabels

\* C4's case: a statement and a proof that both use a label of no node, a
\* proof that declares a target of no node, and a graph with an edge.
C4_Witness ==
    /\ pc = "done"
    /\ G.edges # <<>>
    /\ \E i \in DOMAIN uses_on_node : \E k \in DOMAIN uses_on_node[i] :
          uses_on_node[i][k] \notin NodeLabels
    /\ \E j \in DOMAIN proofs : \E k \in DOMAIN proofs[j].uses :
          proofs[j].uses[k] \notin NodeLabels
    /\ \E j \in DOMAIN proofs :
          proofs[j].target_label # NoneStr /\ proofs[j].target_label \notin NodeLabels

\* C5: every recorded StatementNode has a requested category; with no
\* category requested nothing is recorded and the graph has no node and no
\* edge.
C5_OnlyRequested ==
    pc # "idle" =>
        /\ \A k \in DOMAIN nodes : nodes[k].canon \in selected_canonicals
        /\ selected_canonicals = {} =>
              /\ nodes = <<>> /\ node_by_index = EmptyDict
              /\ label_to_node = EmptyDict /\ uses_on_node = EmptyDict
              /\ G.nodes = {} /\ G.edges = <<>>

\* C5's case: no category requested, and a document with a theorem and a
\* proof that uses labels.
C5_Witness ==
    /\ pc = "done"
    /\ selected_canonicals = {}
    /\ \E k \in DOMAIN tex : IsBegin(tex[k]) /\ canonical_of_env(tex[k].v[1]) = "theorem"
    /\ \E j \in DOMAIN proofs : proofs[j].uses # <<>>

\* C9 as claimed: a proof's target is a StatementNode whose label is the
\* declared proves label when a recorded StatementNode has that label,
\* else the StatementNode recorded last before the proof, else absent.
C9_TargetByLabel ==
    WalkOver =>
        \A j \in DOMAIN proofs :
            IF NodesLabelled(proofs[j].target_label) # {}
            THEN /\ proofs[j].target_node_idx \in DOMAIN node_by_index
                 /\ node_by_index[proofs[j].target_node_idx].label = proofs[j].target_label
            ELSE proofs[j].target_node_idx = Fallback(proofs[j].index)

\* The edges build_graph adds for one proof.
EdgesOfProof(p) == ProofEdges(<<p>>, node_by_index, label_to_node)

\* C9 as amended: a proof's target is the last recorded StatementNode that
\* declares a \label equal to the proves label, when there is one (a
\* synthetic label is never matched); else the StatementNode recorded last
\* before the proof; else absent, and then the proof adds no edge.
C9_TargetByDeclaredLabel ==
    WalkOver =>
        \A j \in DOMAIN proofs :
            /\ IF NodesDeclaring(proofs[j].target_label) # {}
               THEN proofs[j].target_node_idx
                        = nodes[Max(NodesDeclaring(proofs[j].target_label))].index
               ELSE proofs[j].target_node_idx = Fallback(proofs[j].index)
            /\ proofs[j].target_node_idx = NoneIdx => EdgesOfProof(proofs[j]) = <<>>
            /\ (pc = "done" /\ \A q \in DOMAIN proofs : proofs[q].target_node_idx = NoneIdx)
                   => \A k \in DOMAIN G.edges : G.edges[k].style # "solid"

\* C9's case: a proof whose declared target is recorded after it, and a
\* proof that declares a label no block declares and falls back to the
\* statement before it.
C9_Witness ==
    /\ pc = "done"
    /\ \E j \in DOMAIN proofs :
          /\ proofs[j].target_label # NoneStr
          /\ proofs[j].target_node_idx > proofs[j].index
    /\ \E j \in DOMAIN proofs :
          /\ proofs[j].target_label # NoneStr
          /\ proofs[j].target_label \notin DOMAIN label_to_node
          /\ proofs[j].target_node_idx # NoneIdx
          /\ proofs[j].target_node_idx < proofs[j].index

\* Scenario 1 of the specification: definition D1 (b), theorem T1 (a), and
\* a proof that proves T1 and uses D1.
Scenario1 ==
    << Tok("begin", <<"Defn">>), Tok("label", <<"b">>), Tok("end", <<>>),
       Tok("begin", <<"theorem">>), Tok("label", <<"a">>), Tok("end", <<>>),
       Tok("begin", <<"Proof">>), Tok("proves", <<"a">>),
       Tok("uses", <<"", "b", "theorem:0">>), Tok("end", <<>>) >>

\* The edge every reference to a label that Known accepts must have: from
\* the referenced label to the statement that uses it, or to the target of
\* the proof that uses it.
EdgeForEvery(Known(_)) ==
    /\ \A i \in DOMAIN uses_on_node : \A k \in DOMAIN uses_on_node[i] :
          Known(uses_on_node[i][k]) =>
              InSeq(Edge(uses_on_node[i][k], node_by_index[i].label, "dashed"), G.edges)
    /\ \A j \in DOMAIN proofs : \A k \in DOMAIN proofs[j].uses :
          (proofs[j].target_node_idx # NoneIdx /\ Known(proofs[j].uses[k])) =>
              \E style \in {"solid", "dashed"} :
                  InSeq(Edge(proofs[j].uses[k],
                             node_by_index[proofs[j].target_node_idx].label, style),
                        G.edges)

\* C10 as claimed: every label of a uses list that is the label of a
\* recorded StatementNode N gives an edge from N to the statement that uses
\* it, or to the target of the proof that uses it.
C10_EdgeForEveryLabel ==
    pc = "done" => EdgeForEvery(LAMBDA l : l \in NodeLabels)

\* C10 as amended: every label of a uses list that a recorded StatementNode
\* declares with a \label gives that edge (a reference to a synthetic label
\* gives none); scenario 1 gives the nodes D1, T1 and exactly the edge
\* D1 -> T1.
C10_EdgeForEveryDeclaredLabel ==
    pc = "done" =>
        /\ EdgeForEvery(LAMBDA l : NodesDeclaring(l) # {})
        /\ (tex = Scenario1 /\ selected_canonicals = AllSelected) =>
              G = [nodes |-> {"a", "b"}, edges |-> << Edge("b", "a", "solid") >>]

\* C10's case: scenario 1, built.
C10_Witness ==
    /\ pc = "done"
    /\ tex = Scenario1
    /\ selected_canonicals = AllSelected
    /\ Len(G.edges) = 1

\* C10's case for a statement's own uses list: a dashed edge and a solid
\* edge in one graph.
C10_WitnessBothKinds ==
    /\ pc = "done"
    /\ \E k \in DOMAIN G.edges : G.edges[k].style = "dashed"
    /\ \E k \in DOMAIN G.edges : G.edges[k].style = "solid"

-----------------------------------------------------------------------------
(* The App.  A field that holds None is the empty sequence, a field that   *)
(* holds the value x the sequence << x >>.                                  *)

None == <<>>

Some(x) == << x >>

\* A \chapter{title} of the text.
Chapter(title) == Tok("chapter", << title >>)

\* "\n\n% [chapter-slice separator]\n\n"
Separator == Tok("comment", << "[chapter-slice separator]" >>)

\* list(CHAPTER_RX.finditer(tex)): the offset m.start() of each marker,
\* counted from 0.
RECURSIVE ChapterMatches(_, _)
ChapterMatches(text, i) ==
    IF i > Len(text) THEN <<>>
    ELSE (IF text[i].t = "chapter" THEN << i - 1 >> ELSE <<>>)
         \o ChapterMatches(text, i + 1)

\* find_chapter_ranges with every span running to the end of the text.
find_chapter_ranges_ToEnd(text) ==
    LET matches == ChapterMatches(text, 1)
    IN  [ i \in 1 .. Len(matches) |->
            [ title |-> text[matches[i] + 1].v[1],
              start |-> matches[i],
              end   |-> Len(text) ] ]

find_chapter_ranges(text) ==
    LET matches == ChapterMatches(text, 1)
    IN  [ i \in 1 .. Len(matches) |->
            [ title |-> text[matches[i] + 1].v[1],
              start |-> matches[i],
              end   |-> IF i < Len(matches) THEN matches[i + 1] ELSE Len(text) ] ]

\* expanded[s:e]
Slice(text, s, e) == SubSeq(text, s + 1, e)

\* on_ok: the (start, end) of the chapters whose box is ticked, in order.
RECURSIVE SelectedRanges(_, _, _)
SelectedRanges(chapters, ticked, i) ==
    IF i > Len(chapters) THEN <<>>
    ELSE (IF i \in ticked THEN << << chapters[i].start, chapters[i].end >> >> ELSE <<>>)
         \o SelectedRanges(chapters, ticked, i + 1)

\* _choose_chapters_from_tex: None without chapters, else the ranges chosen.
choose_chapters_from_tex(expanded, ticked) ==
    IF find_chapter_ranges(expanded) = <<>> THEN None
    ELSE Some(SelectedRanges(find_chapter_ranges(expanded), ticked, 1))

\* "".join(parts): each selected slice followed by the separator.
RECURSIVE JoinParts(_, _)
JoinParts(expanded, ranges) ==
    IF ranges = <<>> THEN <<>>
    ELSE Slice(expanded, Head(ranges)[1], Head(ranges)[2]) \o << Separator >>
         \o JoinParts(expanded, Tail(ranges))

\* FilteredTex with the selection ignored.
FilteredTex_Whole(expanded, ranges) == expanded

\* The text scan hands to the walker.
FilteredTex(expanded, ranges) ==
    IF ranges = None THEN expanded
    ELSE IF Len(ranges[1]) = 0 THEN <<>>
    ELSE JoinParts(expanded, ranges[1])

ScanningStatus(ranges) ==
    IF ranges = None THEN "No chapters found; scanning whole document..."
    ELSE IF Len(ranges[1]) = 0 THEN "No chapters selected; result will be empty."
    ELSE "Scanning " \o ToString(Len(ranges[1])) \o " selected chapter(s)..."

display_names ==
    [ definition |-> "Definition", theorem |-> "Theorem", lemma |-> "Lemma",
      proposition |-> "Proposition", corollary |-> "Corollary",
      construction |-> "Construction", example |-> "Example", remark |-> "Remark" ]

\* counts[canon]
Count(ns, canon) == Cardinality({ k \in DOMAIN ns : ns[k].canon = canon })

\* pretty: for canon in CANONICAL_ORDER: if canon in selected: "Name:count"
RECURSIVE Pretty(_, _, _)
Pretty(order, selected, ns) ==
    IF order = <<>> THEN <<>>
    ELSE (IF Head(order) \in selected
          THEN << display_names[Head(order)] \o ":" \o ToString(Count(ns, Head(order))) >>
          ELSE <<>>)
         \o Pretty(Tail(order), selected, ns)

\* ", ".join(pretty)
RECURSIVE Join(_)
Join(ss) ==
    IF ss = <<>> THEN ""
    ELSE IF Len(ss) = 1 THEN ss[1]
    ELSE ss[1] \o ", " \o Join(Tail(ss))

FoundStatus(selected, ns) ==
    IF Pretty(CANONICAL_ORDER, selected, ns) = <<>> THEN "No selected categories found."
    ELSE "Found: " \o Join(Pretty(CANONICAL_ORDER, selected, ns))

\* _expand: None for a blank path and when load_and_expand raises.
expand(texfile) ==
    IF texfile = "" \/ texfile \notin DOMAIN texts THEN None ELSE Some(texts[texfile])

\* App.scan.  texfile is what the path entry holds, ticked the boxes ticked
\* in the chapter dialog, selected the category boxes ticked, raises whether
\* parse_latex_structure raises.
scan(a, texfile, ticked, selected, raises) ==
    IF texfile = "" THEN a
    ELSE IF expand(texfile) = None THEN [a EXCEPT !.status = "Expanding project..."]
    ELSE LET expanded == expand(texfile)[1]
             ranges == choose_chapters_from_tex(expanded, ticked)
             filtered == FilteredTex(expanded, ranges)
             a1 == [a EXCEPT !.expanded_tex = Some(expanded),
                             !.chapter_ranges = ranges,
                             !.filtered_tex = Some(filtered),
                             !.status = ScanningStatus(ranges)]
             p == parse_latex_structure(filtered, selected)
         IN  IF raises THEN a1
             ELSE [a1 EXCEPT !.parsed = Some(p),
                             !.status = FoundStatus(selected, p.nodes)]

\* The first half of App._build_graph: what it leaves in the App when
\* nothing was expanded before.
build_graph_state(a, texfile, selected, raises) ==
    IF a.expanded_tex # None \/ texfile = "" THEN a
    ELSE IF expand(texfile) = None THEN [a EXCEPT !.status = "Expanding project..."]
    ELSE LET expanded == expand(texfile)[1]
             a1 == [a EXCEPT !.expanded_tex = Some(expanded),
                             !.filtered_tex = IF @ = None THEN Some(expanded) ELSE @,
                             !.status = "Expanding project..."]
         IN  IF raises THEN a1
             ELSE [a1 EXCEPT !.parsed =
                        Some(parse_latex_structure(a1.filtered_tex[1], selected))]

\* The graph App._build_graph returns, None when it returns None or
\* raises: the graph of the stored parse results, handed to tred unless
\* all edges are kept.  What tred does is Graphviz's; the graph records that
\* it went through it.
build_graph_value(a, texfile, selected, raises, keep) ==
    LET b == build_graph_state(a, texfile, selected, raises)
    IN  IF a.expanded_tex = None /\ (b.expanded_tex = None \/ raises) THEN None
        ELSE IF b.parsed = None THEN None
        ELSE Some([ graph |-> build_graph(b.parsed[1].nodes, b.parsed[1].node_by_index,
                                          b.parsed[1].label_to_node,
                                          b.parsed[1].uses_on_node, b.parsed[1].proofs),
                    tred |-> ~keep ])

-----------------------------------------------------------------------------
(* The documents of the App: a preamble and chapters, each a few blocks. *)

TheoremUsesA == << Tok("begin", <<"theorem">>), Tok("uses", <<"a">>), Tok("end", <<>>) >>
DefnA == << Tok("begin", <<"Defn">>), Tok("label", <<"a">>), Tok("end", <<>>) >>
ProofUsesA == << Tok("begin", <<"Proof">>), Tok("uses", <<"a">>), Tok("end", <<>>) >>

Preambles == { <<>>, DefnA }

ChapterBodies == { DefnA, TheoremUsesA, ProofUsesA }

ChapterTitles == << "A", "B", "C" >>

RECURSIVE Chapters(_, _)
Chapters(bodies, k) ==
    IF k > Len(bodies) THEN <<>>
    ELSE << Chapter(ChapterTitles[k]) >> \o bodies[k] \o Chapters(bodies, k + 1)

AppDocs ==
    { pre \o Chapters(bodies, 1) :
        pre \in Preambles, bodies \in SeqsUpTo(ChapterBodies, MaxChapters) }

\* What the path entry may hold: blank, two documents, a file that is not
\* there.
TexFiles == { "", "main.tex", "other.tex", "nofile.tex" }

-----------------------------------------------------------------------------
(* Specification SpecApp: the buttons of the App, pressed in any order.   *)
(* The path entry and the check boxes are the user's: a handler finds in   *)
(* them whatever the user left there.                                      *)

AppInit ==
    /\ texts \in { ("main.tex" :> d) @@ ("other.tex" :> (DefnA \o TheoremUsesA)) :
                   d \in AppDocs }
    /\ app = [ expanded_tex |-> None, chapter_ranges |-> None,
               filtered_tex |-> None, parsed |-> None, status |-> "Ready." ]
    /\ last = [ op |-> "init", ok |-> TRUE, ticked |-> {}, selected |-> {},
                walked |-> None, G |-> None ]

InitApp == AppInit /\ WalkIdle /\ ExpandIdle

\* What a handler did: whether it came to its end, the chapter boxes and
\* category boxes it found ticked, the text it handed to the walker and the
\* graph it wrote or drew, None when it did not get that far.
Did(op, ok, ticked, selected, walked, g) ==
    [ op |-> op, ok |-> ok, ticked |-> ticked, selected |-> selected,
      walked |-> walked, G |-> g ]

\* The text App._build_graph hands to the walker, None when it does not
\* call it.
build_graph_walked(a, texfile) ==
    IF a.expanded_tex # None \/ expand(texfile) = None THEN None
    ELSE IF a.filtered_tex = None THEN expand(texfile) ELSE a.filtered_tex

\* The boxes of the chapter dialog of a text.
Boxes(texfile) ==
    IF expand(texfile) = None THEN {}
    ELSE 1 .. Len(find_chapter_ranges(expand(texfile)[1]))

\* What parse_latex_structure is called with: the category boxes ticked,
\* and whether it raises.
ParseInputs == { << selected, FALSE >> : selected \in Selections } \cup { << {}, TRUE >> }

Scan ==
    \E texfile \in TexFiles, pin \in ParseInputs :
      \E ticked \in SUBSET Boxes(texfile) :
        /\ app' = scan(app, texfile, ticked, pin[1], pin[2])
        /\ last' = IF expand(texfile) = None
                   THEN Did("scan", FALSE, {}, {}, None, None)
                   ELSE Did("scan", ~pin[2], ticked, pin[1],
                            Some(FilteredTex(expand(texfile)[1],
                                             choose_chapters_from_tex(expand(texfile)[1],
                                                                      ticked))),
                            None)
        /\ UNCHANGED <<texts, walkVars, expandVars>>

\* App._build_graph reads the path entry and the category boxes only when
\* nothing was expanded before.
PathRead == IF app.expanded_tex = None THEN TexFiles ELSE {""}

ParseRead == IF app.expanded_tex = None THEN ParseInputs ELSE { << {}, FALSE >> }

\* App.generate.  keep is the box that keeps all edges, base_name the
\* answer to the dialog, written whether the two files could be written.
Generate ==
    \E texfile \in PathRead, pin \in ParseRead, keep, written \in BOOLEAN,
       base_name \in {"", "dep_graph"} :
      LET g == build_graph_value(app, texfile, pin[1], pin[2], keep)
          b == build_graph_state(app, texfile, pin[1], pin[2])
          ok == g # None /\ base_name # "" /\ written
      IN  /\ app' = IF ok
                    THEN [b EXCEPT !.status = "DOT -> " \o base_name \o ".dot, TikZ -> "
                                                 \o base_name \o ".tex"]
                    ELSE b
          /\ last' = Did("generate", ok, {}, pin[1], build_graph_walked(app, texfile),
                         IF ok THEN g ELSE None)
          /\ UNCHANGED <<texts, walkVars, expandVars>>

\* App.preview.  drawn is whether the picture could be drawn and loaded.
Preview ==
    \E texfile \in PathRead, pin \in ParseRead, keep, drawn \in BOOLEAN :
      LET g == build_graph_value(app, texfile, pin[1], pin[2], keep)
          b == build_graph_state(app, texfile, pin[1], pin[2])
          ok == g # None /\ drawn
      IN  /\ app' = IF ok
                    THEN [b EXCEPT !.status = "Preview: dep_graph_preview.png"]
                    ELSE b
          /\ last' = Did("preview", ok, {}, pin[1], build_graph_walked(app, texfile),
                         IF ok THEN g ELSE None)
          /\ UNCHANGED <<texts, walkVars, expandVars>>

NextApp == Scan \/ Generate \/ Preview

SpecApp == InitApp /\ [][NextApp]_vars

-----------------------------------------------------------------------------
(* What the claim about scanning speaks of. *)

\* The number of the chapter the i-th token of a text is in, 0 before the
\* first section marker.
ChapterOf(text, i) == Cardinality({ j \in 1 .. i : text[j].t = "chapter" })

\* The text of the chapters of a set, in the order of the document.
RECURSIVE SelectedText(_, _, _)
SelectedText(text, ticked, i) ==
    IF i > Len(text) THEN <<>>
    ELSE (IF ChapterOf(text, i) \in ticked THEN << text[i] >> ELSE <<>>)
         \o SelectedText(text, ticked, i + 1)

\* parse_latex_structure and build_graph run on a text.
Pipeline(text, selected) ==
    LET p == parse_latex_structure(text, selected)
    IN  [ parsed |-> p,
          graph  |-> build_graph(p.nodes, p.node_by_index, p.label_to_node,
                                 p.uses_on_node, p.proofs) ]

ScannedChapters ==
    /\ last.op = "scan" /\ last.ok
    /\ app.chapter_ranges # None

\* C6: after a scan of a document with section markers, the stored parse
\* results, and the graph built of them, are those of the walker and the
\* assembler run on the text of the ticked chapters alone, in document
\* order: the preamble and the chapters not ticked leave no trace.
C6_SelectedSpansOnly ==
    ScannedChapters =>
        /\ app.parsed =
              Some(Pipeline(SelectedText(app.expanded_tex[1], last.ticked, 1),
                            last.selected).parsed)
        /\ build_graph(app.parsed[1].nodes, app.parsed[1].node_by_index,
                       app.parsed[1].label_to_node, app.parsed[1].uses_on_node,
                       app.parsed[1].proofs)
              = Pipeline(SelectedText(app.expanded_tex[1], last.ticked, 1),
                         last.selected).graph

\* C6's case: a scan of a document with a preamble and two chapters, from
\* which only the second was ticked, found a node, and the whole document
\* would have given other results.
C6_Witness ==
    /\ ScannedChapters
    /\ Len(find_chapter_ranges(app.expanded_tex[1])) = 2
    /\ app.expanded_tex[1][1].t # "chapter"
    /\ last.ticked = {2}
    /\ app.parsed[1].nodes # <<>>
    /\ app.parsed[1] # parse_latex_structure(app.expanded_tex[1], last.selected)

-----------------------------------------------------------------------------
(* What the claims about load_and_expand speak of. *)

DirectiveKinds == { PassOrder[k] : k \in DOMAIN PassOrder }

\* The directives of a file that are not in a comment.
DirectivesOf(p) ==
    { i \in DOMAIN fs[p] : fs[p][i].t \in DirectiveKinds /\ ~fs[p][i].c }

RECURSIVE SumOver(_, _)
SumOver(S, f) ==
    IF S = {} THEN 0
    ELSE LET p == CHOOSE q \in S : TRUE IN f[p] + SumOver(S \ {p}, f)

\* The number of directives of all the files there are.
AllDirectives == SumOver(DOMAIN fs, [p \in DOMAIN fs |-> Cardinality(DirectivesOf(p))])

Occurrences(text, it) == Cardinality({ i \in DOMAIN text : text[i] = it })

\* The files whose text expand has read.
Expanded ==
    (IF epc \in {"expand", "done"} THEN {main_path} ELSE {})
        \cup { elog[k].target : k \in { j \in DOMAIN elog : elog[j].outcome = "expanded" } }

\* A directive before the k-th one has made expand look for the same path.
ReferredBefore(k) ==
    \/ elog[k].target = main_path
    \/ \E j \in 1 .. (k - 1) :
          elog[j].target = elog[k].target /\ elog[j].outcome # "skipped"

\* The entry document has an \includeonly that is not in a comment.
IncludeOnlyPresent ==
    /\ main_path \in DOMAIN fs
    /\ \E i \in DOMAIN fs[main_path] :
          fs[main_path][i].t = "includeonly" /\ ~fs[main_path][i].c

\* The names that \includeonly lists.
AllowList ==
    IF main_path \notin DOMAIN fs THEN {}
    ELSE UNION { { fs[main_path][i].d[k] : k \in DOMAIN fs[main_path][i].d } \ {""} :
                 i \in { j \in DOMAIN fs[main_path] :
                           fs[main_path][j].t = "includeonly" /\ ~fs[main_path][j].c } }

\* main includes a and a includes main.
CyclicDisk ==
    /\ main_path = MainFile
    /\ fs[MainFile] = << Text("main"), Dir("input_braced", <<>>, "a") >>
    /\ fs[FileA] = << Text("a"), Dir("input_braced", <<>>, "main") >>

\* The work load_and_expand has left: the files not looked for yet, their
\* directives and the directives in the texts of the calls under way.
WorkLeft ==
    (IF epc \in {"start", "expand"} THEN 1 ELSE 0)
      + Cardinality(DOMAIN fs \ visited)
      + SumOver(DOMAIN fs \ visited,
                [p \in DOMAIN fs |-> Cardinality(DirectivesOf(p))])
      + SumOver(DOMAIN stack,
                [d \in DOMAIN stack |->
                   Cardinality({ i \in DOMAIN stack[d].text :
                                   stack[d].text[i].t \in DirectiveKinds })])

EachFileOnce ==
    /\ epc = "error" => main_path \notin DOMAIN fs
    /\ epc = "expand" => stack # <<>>
    /\ Len(elog) <= AllDirectives
    /\ Len(stack) <= Cardinality(DOMAIN fs)
    /\ \A j, k \in DOMAIN elog :
          (/\ j # k
           /\ elog[j].outcome = "expanded"
           /\ elog[k].outcome = "expanded")
          => (elog[j].target # elog[k].target /\ elog[j].target # main_path)
    /\ \A k \in DOMAIN elog :
          (elog[k].outcome # "skipped" /\ ReferredBefore(k))
          => elog[k].outcome = "empty"
    /\ \A p \in DOMAIN fs : \A i \in DOMAIN fs[p] :
          fs[p][i].t = "text" =>
             /\ Occurrences(flat, fs[p][i]) <= 1
             /\ \A d \in DOMAIN stack : Occurrences(stack[d].text, fs[p][i]) <= 1
             /\ (epc = "done" /\ p \in Expanded) => Occurrences(flat, fs[p][i]) = 1
    /\ (epc = "done" /\ CyclicDisk) => flat = << Text("main"), Text("a") >>

\* C3: whatever the files refer to, load_and_expand comes to an end (every
\* step leaves less work, and no more directives are replaced than the
\* files hold), no file is read twice and no file's text stands twice in
\* the text of a call or in the FlatDocument, and a reference to a path
\* looked for before leaves empty text and no error; main including a
\* including main gives main's text followed by a's.
C3_EachFileOnce == []EachFileOnce /\ [][WorkLeft' < WorkLeft]_vars

\* C3's case: an expansion that came to its end after a file other than the
\* entry document referred back to the entry document.
C3_Witness ==
    /\ epc = "done"
    /\ \E k \in DOMAIN elog :
          /\ elog[k].by # main_path
          /\ elog[k].target = main_path
          /\ elog[k].outcome = "empty"

\* C7: the allow-list is the one of the entry document's \includeonly; when
\* the entry document has that directive, an \include in any file is
\* replaced by the skip marker, and its target not read, exactly when its
\* base name is not on the list, and otherwise nothing is skipped.
C7_SkippedUnlessAllowed ==
    /\ epc \in {"expand", "done"} => includeonly = AllowList
    /\ \A k \in DOMAIN elog :
          /\ elog[k].outcome = "skipped" =>
                (IncludeOnlyPresent /\ elog[k].m.t = "include")
          /\ (IncludeOnlyPresent /\ elog[k].m.t = "include") =>
                (elog[k].outcome = "skipped" <=> BaseName(elog[k].m) \notin AllowList)

\* C8 as stated: a missing entry document ends load_and_expand before
\* anything is expanded; every directive whose target is missing is replaced
\* by the placeholder, and no directive is left in the FlatDocument.
C8_MissingGivesPlaceholder ==
    /\ main_path \notin DOMAIN fs =>
          (epc \in {"start", "error"} /\ visited = {} /\ elog = <<>> /\ flat = <<>>)
    /\ \A k \in DOMAIN elog :
          elog[k].target \notin DOMAIN fs => elog[k].outcome = "missing"
    /\ epc = "done" => \A i \in DOMAIN flat : flat[i].t \notin DirectiveKinds

\* main refers to a missing file and then to a.
MissingThenA ==
    /\ main_path = MainFile
    /\ fs[MainFile] = << Text("main"), Dir("input_braced", <<>>, "ghost"),
                         Item("input_space", <<>>, <<>>, "a", ".tex", FALSE) >>
    /\ fs[FileA] = << Text("a") >>

\* C8: a missing entry document ends load_and_expand before anything is
\* expanded.  A directive that the allow-list does not skip and whose target
\* is missing is replaced by the placeholder when no directive before it
\* referred to that path, and by empty text otherwise; the placeholder names
\* the path and stands once in the FlatDocument; every directive of every
\* file that was read is replaced, a missing target or not.
C8_FirstMissingGivesPlaceholder ==
    /\ main_path \notin DOMAIN fs =>
          (epc \in {"start", "error"} /\ visited = {} /\ elog = <<>> /\ flat = <<>>)
    /\ main_path \in DOMAIN fs => epc # "error"
    /\ \A k \in DOMAIN elog :
          (elog[k].target \notin DOMAIN fs /\ elog[k].outcome # "skipped") =>
             /\ elog[k].outcome = (IF ReferredBefore(k) THEN "empty" ELSE "missing")
             /\ epc = "done" =>
                   Occurrences(flat, Item("missing", <<>>, elog[k].target.dir,
                                          elog[k].target.stem, elog[k].target.ext,
                                          FALSE)) = 1
    /\ epc = "done" =>
          /\ \A i \in DOMAIN flat : flat[i].t \notin DirectiveKinds
          /\ \A p \in Expanded :
                Cardinality({ k \in DOMAIN elog : elog[k].by = p })
                   = Cardinality(DirectivesOf(p))
    /\ (epc = "done" /\ MissingThenA) =>
          flat = << Text("main"),
                    Item("missing", <<>>, ProjectDir, "ghost", ".tex", FALSE),
                    Text("a") >>

\* C8's case: an expansion that came to its end after two directives
\* referred to one missing path and the file of the first of them had
\* another directive expanded after it.
C8_Witness ==
    /\ epc = "done"
    /\ \E j, k, l \in DOMAIN elog :
          /\ j < k /\ j < l
          /\ elog[j].target = elog[k].target
          /\ elog[j].outcome = "missing"
          /\ elog[k].outcome = "empty"
          /\ elog[l].by = elog[j].by
          /\ elog[l].outcome = "expanded"

-----------------------------------------------------------------------------
(* What the claim about classification speaks of. *)

Categories == { CANONICAL_ORDER[k] : k \in DOMAIN CANONICAL_ORDER }

\* The block names classification is asked about: every alias, the names of
\* the model that are not lower case, and names that are no alias.
EnvNames ==
    UNION { ALIASES[c] : c \in Categories } \cup PROOF_ALIAS_RX
        \cup DOMAIN LowerTable \cup { "itemize", "theorem*", "proofs", "" }

\* The places, in declaration order, of the categories a name is an alias
\* of, whatever its case.
MatchingPlaces(env) ==
    { k \in DOMAIN CANONICAL_ORDER : Lower(env) \in ALIASES[CANONICAL_ORDER[k]] }

Min(S) == CHOOSE m \in S : \A x \in S : m <= x

OneOutcome ==
    /\ \A c, d \in Categories : c # d => ALIASES[c] \cap ALIASES[d] = {}
    /\ \A c \in Categories : ALIASES[c] \cap PROOF_ALIAS_RX = {}
    /\ DOMAIN ALIASES = Categories
    /\ \A env \in EnvNames :
          /\ Cardinality(MatchingPlaces(env)) <= 1
          /\ canonical_of_env(env) =
                (IF MatchingPlaces(env) = {} THEN NoneStr
                 ELSE CANONICAL_ORDER[Min(MatchingPlaces(env))])
          /\ IsProof(env) <=> Lower(env) \in PROOF_ALIAS_RX
          /\ IsProof(env) => canonical_of_env(env) = NoneStr
    /\ canonical_of_env("Defn") = "definition"
    /\ canonical_of_env("thm") = "theorem"
    /\ IsProof("Proof") /\ canonical_of_env("Proof") = NoneStr

\* What one visit of walk records of the block at pos.
OneRecord ==
    (pc = "walk" /\ pos <= Len(tex)) =>
        LET env == tex[pos].v[1]
            dn  == Len(nodes') - Len(nodes)
            dp  == Len(proofs') - Len(proofs)
        IN  /\ dn \in {0, 1} /\ dp \in {0, 1} /\ dn + dp <= 1
            /\ order_counter' = order_counter + dn + dp
            /\ dn = 1 <=> (/\ canonical_of_env(env) # NoneStr
                           /\ canonical_of_env(env) \in selected_canonicals)
            /\ dn = 1 => (/\ nodes'[Len(nodes')].env = env
                          /\ nodes'[Len(nodes')].canon = canonical_of_env(env))
            /\ dp = 1 <=> (/\ Lower(env) \in PROOF_ALIAS_RX
                           /\ canonical_of_env(env) = NoneStr)

\* C11: classification gives a block name at most one outcome.  The alias
\* sets of the eight categories are pairwise disjoint and disjoint from the
\* proof aliases, names matched whole and whatever their case;
\* canonical_of_env gives the first matching category in declaration order
\* or none; a visit of the walk records the block as one StatementNode, or
\* as one ProofBlock, or not at all, never as both (Defn is a definition,
\* thm a theorem, Proof a proof and no category).
C11_OneOutcome == []OneOutcome /\ [][OneRecord]_vars

\* C11's case: the walk is over a text with a Defn recorded as a
\* definition, a Proof recorded as a proof and a block that is neither.
C11_Witness ==
    /\ pc = "done"
    /\ \E k \in DOMAIN nodes : nodes[k].env = "Defn" /\ nodes[k].canon = "definition"
    /\ proofs # <<>>
    /\ \E i \in DOMAIN tex : tex[i].t = "begin" /\ tex[i].v[1] = "itemize"
    /\ Len(nodes) + Len(proofs) < Cardinality({ i \in DOMAIN tex : tex[i].t = "begin" })

-----------------------------------------------------------------------------
(* What the claim about repeated edges speaks of. *)

\* The entries <<i, k>> of the uses lists of statements that name a known
\* label: entry k of the list of the statement with ordinal i.
StatementOccurrences ==
    UNION { { << i, k >> : k \in { n \in DOMAIN uses_on_node[i] :
                                     uses_on_node[i][n] \in DOMAIN label_to_node } } :
            i \in DOMAIN uses_on_node \cap DOMAIN node_by_index }

\* The same for the proofs that have a target: entry k of the j-th proof.
ProofOccurrences ==
    UNION { { << j, k >> : k \in { n \in DOMAIN proofs[j].uses :
                                     proofs[j].uses[n] \in DOMAIN label_to_node } } :
            j \in { q \in DOMAIN proofs :
                      proofs[q].target_node_idx \in DOMAIN node_by_index } }

StatementPair(o) ==
    << label_to_node[uses_on_node[o[1]][o[2]]].label, node_by_index[o[1]].label >>

ProofPair(o) ==
    << label_to_node[proofs[o[1]].uses[o[2]]].label,
       node_by_index[proofs[o[1]].target_node_idx].label >>

ProducedPairs ==
    { StatementPair(o) : o \in StatementOccurrences }
        \cup { ProofPair(o) : o \in ProofOccurrences }

EdgesOf(pair, style) ==
    { k \in DOMAIN G.edges :
        /\ << G.edges[k].src, G.edges[k].dst >> = pair
        /\ G.edges[k].style = style }

\* C12 as claimed: the graph holds one edge for each occurrence of a pair,
\* dashed for an occurrence in a statement's uses list and not dashed for
\* one in a proof's.
C12_EdgePerOccurrence ==
    pc = "done" =>
        \A pair \in ProducedPairs :
            /\ Cardinality(EdgesOf(pair, "dashed"))
                  = Cardinality({ o \in StatementOccurrences : StatementPair(o) = pair })
            /\ Cardinality(EdgesOf(pair, "solid"))
                  = Cardinality({ o \in ProofOccurrences : ProofPair(o) = pair })

\* C12: the graph build_graph returns is strict.  It holds one edge for
\* each pair (source, target) produced, however often and by whichever
\* directives the pair is produced, and no other edge; the edge is dashed
\* when the uses list of a statement produced the pair and not dashed when
\* only uses lists of proofs did.
C12_EdgePerPair ==
    pc = "done" =>
        /\ \A pair \in ProducedPairs :
              Cardinality(EdgesOf(pair, "dashed")) + Cardinality(EdgesOf(pair, "solid")) = 1
        /\ \A k \in DOMAIN G.edges :
              /\ << G.edges[k].src, G.edges[k].dst >> \in ProducedPairs
              /\ G.edges[k].style = "dashed"
                    <=> \E o \in StatementOccurrences :
                           StatementPair(o) = << G.edges[k].src, G.edges[k].dst >>

\* C12's case: a graph built after a statement's uses list and the uses
\* list of a proof of that statement produced the same pair.
C12_Witness ==
    /\ pc = "done"
    /\ \E o \in StatementOccurrences : \E q \in ProofOccurrences :
          StatementPair(o) = ProofPair(q)
    /\ G.edges # <<>>

-----------------------------------------------------------------------------
(* What the claims about sequences of App actions speak of. *)

HasMarker(text) == \E i \in DOMAIN text : text[i].t = "chapter"

\* The text built from a selection of chapters: the text of each ticked
\* chapter, in document order, each followed by the separator.
RECURSIVE SlicedText(_, _, _)
SlicedText(text, ticked, k) ==
    IF k > ChapterOf(text, Len(text)) THEN <<>>
    ELSE (IF k \in ticked THEN SelectedText(text, {k}, 1) \o << Separator >> ELSE <<>>)
         \o SlicedText(text, ticked, k + 1)

WalkerRun == last.walked # None

WalkedAsStated ==
    WalkerRun =>
        IF last.op # "scan" \/ ~HasMarker(app.expanded_tex[1])
        THEN last.walked = app.expanded_tex
        ELSE last.walked = Some(SlicedText(app.expanded_tex[1], last.ticked, 1))

\* Generate and Preview call the walker only when nothing was expanded
\* before, and once something was they never call it.
WalkedOutsideScan ==
    last'.op \in {"generate", "preview"} =>
        (last'.walked # None
            <=> (app.expanded_tex = None /\ app'.expanded_tex # None))

ResultsOfStoredText ==
    /\ app.filtered_tex # None
    /\ \E selected \in Selections :
          app.parsed = Some(parse_latex_structure(app.filtered_tex[1], selected))

\* C14: whatever the sequence of Scan, Generate and Preview, results that
\* are stored are the result of parsing the stored filtered text, and a
\* graph Generate or Preview wrote or drew is the graph of the stored
\* filtered text.  The code contradicts it: a scan whose parse raises has
\* stored the new texts already and leaves the results of the scan before.
C14_ResultsOfStoredText ==
    /\ app.parsed # None => ResultsOfStoredText
    /\ last.G # None =>
          \E selected \in Selections :
              last.G[1].graph = Pipeline(app.filtered_tex[1], selected).graph

====
